---- MODULE Spec2Model ----
(***************************************************************************)
(* Model of the pdt control server (src/pdtserver/src/server.rs) and the   *)
(* wire types of src/pdtcore/src/lib.rs.                                   *)
(*                                                                         *)
(* Threads: the accept loop, one reader and one writer per accepted        *)
(* connection, the single dispatcher (handle_messages) and the admin       *)
(* callers of get_clients / send.  Every critical section of the registry  *)
(* mutex (`clients`) is one action, except the dispatcher's Hello handler, *)
(* whose two channel sends are separated by a step because the writer,     *)
(* which takes no lock to receive, can run between them.                   *)
(***************************************************************************)
EXTENDS Naturals, Sequences, FiniteSets, TLC

\* ------------------------------------------------------------------ bounds
MaxClients == 2      \* connections the accept loop takes
MaxSent == 2         \* frames all devices together put on the wire
MaxAdminCalls == 1   \* admin calls of send in total
MaxLosses == 2       \* times the client's connection is dropped
MaxInbound == 2      \* frames the client is sent
MaxWritten == 2      \* messages written on the protocol's stream
MaxLockSessions == 1  \* connections accepted, in the model of the locks
MaxLockEvents == 2    \* events on the inbound channel, in the model of the locks
MaxAdminThreads == 2  \* admin calls that can run at once (the runtime's workers)

Ids == 1..MaxClients
\* an id no accept ever minted, for admin calls with a stale or foreign id
UnknownId == 0

\* ------------------------------------------------------------- wire types
None == <<>>
Some(x) == <<x>>

\* BuiltInfo::default() of the server binary
LocalBuiltInfo ==
  [pkg_version |-> "0.1.0", pkg_version_major |-> "0", pkg_version_minor |-> "1",
   pkg_version_patch |-> "0", pkg_version_pre |-> "", target |-> "x86_64",
   host |-> "x86_64", profile |-> "release"]

\* the build infos devices introduce themselves with: one that differs from the
\* server's in every field but major and minor, one with another major, one
\* with another minor
PatchDiff ==
  [pkg_version |-> "0.1.9", pkg_version_major |-> "0", pkg_version_minor |-> "1",
   pkg_version_patch |-> "9", pkg_version_pre |-> "beta", target |-> "aarch64",
   host |-> "aarch64", profile |-> "debug"]
MajorDiff == [LocalBuiltInfo EXCEPT !.pkg_version_major = "1"]
MinorDiff == [LocalBuiltInfo EXCEPT !.pkg_version_minor = "2"]
BuiltInfos == {PatchDiff, MajorDiff, MinorDiff}

compatibleFieldwise(self, other) ==
  self = other
compatible(self, other) ==
  /\ self.pkg_version_major = other.pkg_version_major
  /\ self.pkg_version_minor = other.pkg_version_minor

DeviceInfoDefault ==
  [name |-> "unknown", os |-> "unknown", os_version |-> "unknown", uptime |-> "unknown"]
DeviceInfos ==
  {[name |-> "ASH", os |-> "linux", os_version |-> "x", uptime |-> "1h"],
   [name |-> "ASH", os |-> "linux", os_version |-> "x", uptime |-> "2h"]}

ClientMessages == {"ScreenOff", "ScreenOn", "PowerOff", "Restart", "Goodbye", "RequestDeviceInfo"}

ClientMsg(variant) == [side |-> "Client", variant |-> variant, body |-> <<>>]
ServerMsg(variant, body) == [side |-> "Server", variant |-> variant, body |-> body]
Hello(built) == ServerMsg("Hello", <<[name |-> "ASH", pdtcore_built_info |-> built]>>)
DeviceInfoMsg(info) == ServerMsg("DeviceInfo", <<info>>)
ServerGoodbye == ServerMsg("Goodbye", <<>>)

\* what a peer puts on the wire: the three ServerMessage variants and, from a
\* broken peer, a Message::Client value (the dispatcher has one arm for all of
\* them)
PeerClientMessages == {"ScreenOff"}
PeerMessages ==
  {Hello(b) : b \in BuiltInfos} \cup {DeviceInfoMsg(d) : d \in DeviceInfos}
    \cup {ServerGoodbye} \cup {ClientMsg(c) : c \in PeerClientMessages}

\* what the admin routes send (screen_off, screen_on)
AdminMessages == {ClientMsg("ScreenOff"), ClientMsg("ScreenOn")}

\* ------------------------------------------------------------------ state
VARIABLES
  client_ids,        \* Server.client_ids: the ids minted so far, in accept order
  clients,           \* Server.clients: the registry, id -> Some(ServerClient), None: no entry
  clients_poisoned,  \* the registry mutex is poisoned (a holder panicked)
  events,            \* the server-wide inbound channel of ServerEvent
  dispatcher,        \* the handle_messages thread: its position and locals
  stream,            \* per connection, device -> server: frames in flight
  reader,            \* per connection: handle_client_incoming_messages
  writer,            \* per connection: the writer thread of Server::run
  outgoing,          \* per connection: the queue of the outbound channel
  rx_alive,          \* per connection: the outbound channel's Receiver exists
  written,           \* per connection: the last message written to the socket
  enqueued,          \* history: per connection, messages enqueued outbound so far
  sent,              \* history: per connection, frames the device put on the wire
  pushed,            \* history: events pushed on the inbound channel
  handled,           \* history: events the dispatcher took from the inbound channel
  last_n,            \* history: per connection, the last genuine frame handled
  last_device_info,  \* history: per connection, the last DeviceInfo recorded
  admin_calls,       \* history: admin calls of send made so far
  \* pdtclient, one run of the client binary
  shutdown_request_flag,  \* Client.shutdown_request_flag_ref
  tcp_stream,        \* Client.tcp_stream: the connection it stands for
  run,               \* the thread of Client::run: its position and locals
  wire,              \* history: the frames written on the current connection
  attempt,           \* history: calls of reconnect since the last connection loss
  connects,          \* history: calls of TcpStream::connect since the last loss
  last_sleep,        \* history: the last backoff sleep, in ms, None: none yet
  losses,            \* history: connection losses so far
  inbound,           \* history: messages the client received so far
  \* pdtcore, one stream with Message::send at one end and Message::receive at the other
  bytes,             \* the bytes written on the stream and not yet read
  eof,               \* the writing end is closed
  sent_messages,     \* history: the messages Message::send wrote
  received_messages, \* history: what the calls of Message::receive returned
  \* pdtserver, the threads and their mutexes
  mutex,             \* per mutex: the thread that holds its guard, and poisoned or not
  thread,            \* per thread: its position, and the locals that decide its way
  pending,           \* events on the inbound channel
  accepted           \* connections accepted so far

server_vars ==
  <<client_ids, clients, clients_poisoned, events, dispatcher, stream, reader,
    writer, outgoing, rx_alive, written, enqueued, sent, pushed, handled,
    last_n, last_device_info, admin_calls>>

client_vars ==
  <<shutdown_request_flag, tcp_stream, run, wire, attempt, connects, last_sleep,
    losses, inbound>>
protocol_vars == <<bytes, eof, sent_messages, received_messages>>
lock_vars == <<mutex, thread, pending, accepted>>
vars == <<server_vars, client_vars, protocol_vars, lock_vars>>

\* what the steps of one program leave alone: the state of the others
not_server == <<client_vars, protocol_vars, lock_vars>>
not_client == <<server_vars, protocol_vars, lock_vars>>
not_protocol == <<server_vars, client_vars, lock_vars>>
not_locks == <<server_vars, client_vars, protocol_vars>>

threads == <<reader, writer>>
channels == <<outgoing, rx_alive, enqueued>>
history == <<handled, last_n, last_device_info>>
admin == <<admin_calls>>

DispatcherIdle == [pc |-> "recv", id |-> UnknownId, built |-> None]

\* ClientConnection::connect and Client::new: a connected stream, the flag false
ClientNew ==
  /\ shutdown_request_flag = FALSE
  /\ tcp_stream = [up |-> TRUE, readable |-> TRUE, shut |-> FALSE]
  /\ run = [pc |-> "introduction", message |-> None, error |-> None, retry |-> 0,
            result |-> None]
  /\ wire = <<>>
  /\ attempt = 0
  /\ connects = 0
  /\ last_sleep = None
  /\ losses = 0
  /\ inbound = 0

\* a new stream: nothing written, nothing read
StreamNew ==
  /\ bytes = <<>>
  /\ eof = FALSE
  /\ sent_messages = <<>>
  /\ received_messages = <<>>

\* the threads of the server: the dispatcher and the accept loop of
\* Server::run, a reader and a writer per connection, and the handlers of the
\* web interface
Dispatcher == <<"dispatcher", 0>>
AcceptLoop == <<"accept", 0>>
Reader(i) == <<"reader", i>>
Writer(i) == <<"writer", i>>
Admin(k) == <<"admin", k>>
NoThread == <<>>
LockSessions == 1..MaxLockSessions
AdminThreads == 1..MaxAdminThreads
Threads ==
  {Dispatcher, AcceptLoop} \cup {Reader(i) : i \in LockSessions}
    \cup {Writer(i) : i \in LockSessions} \cup {Admin(k) : k \in AdminThreads}

\* the mutexes: the four of Server, ServerReference around the Server, and
\* AppStateReference around the AppState
Mutexes ==
  {"incoming_server_event_sender", "incoming_server_event_receiver", "clients",
   "client_ids", "server", "state"}

At(pc) == [pc |-> pc, ended |-> FALSE, call |-> "none"]

\* Server::default, Server::run and the start of the web interface: no guard
\* is held, the dispatcher and the accept loop are at the top of their loops
LocksNew ==
  /\ mutex = [l \in Mutexes |-> [holder |-> NoThread, poisoned |-> FALSE]]
  /\ thread = [t \in Threads |->
                 IF t = Dispatcher THEN At("receiver.lock")
                 ELSE IF t = AcceptLoop THEN At("incoming")
                 ELSE IF t[1] = "admin" THEN At("idle")
                 ELSE At("unborn")]
  /\ pending = 0
  /\ accepted = 0

Init ==
  /\ client_ids = <<>>
  /\ clients = [i \in Ids |-> None]
  /\ clients_poisoned = FALSE
  /\ events = <<>>
  /\ dispatcher = DispatcherIdle
  /\ stream = [i \in Ids |-> [frames |-> <<>>, torn |-> FALSE, open |-> FALSE]]
  /\ reader = [i \in Ids |-> "unborn"]
  /\ writer = [i \in Ids |-> "unborn"]
  /\ outgoing = [i \in Ids |-> <<>>]
  /\ rx_alive = [i \in Ids |-> FALSE]
  /\ written = [i \in Ids |-> None]
  /\ enqueued = [i \in Ids |-> 0]
  /\ sent = [i \in Ids |-> 0]
  /\ pushed = 0
  /\ handled = 0
  /\ last_n = [i \in Ids |-> 0]
  /\ last_device_info = [i \in Ids |-> None]
  /\ admin_calls = 0
  /\ ClientNew
  /\ StreamNew
  /\ LocksNew

\* the registry mutex is held across steps only by the dispatcher, between the
\* two sends of its Hello handler
ClientsLockFree == dispatcher.pc # "hello_rdi"

Registered(id) == id \in Ids /\ clients[id] # None

RECURSIVE SumTo(_, _)
SumTo(f, i) == IF i = 0 THEN 0 ELSE f[i] + SumTo(f, i - 1)

\* ------------------------------------------------------------ accept loop
\* Server::run, the body of the accept loop: mint an id, push it on
\* client_ids, make the outbound channel, spawn the reader, then the writer
\* (which has the ServerClient and inserts it itself). Ulid::new() gives an id
\* that no earlier call gave: here the next number.
UlidReused(minted) == 1
UlidNew(minted) == Len(minted) + 1

Accept ==
  /\ Len(client_ids) < MaxClients
  /\ LET id == UlidNew(client_ids) IN
       /\ client_ids' = Append(client_ids, id)
       /\ stream' = [stream EXCEPT ![id].open = TRUE]
       /\ rx_alive' = [rx_alive EXCEPT ![id] = TRUE]
       /\ reader' = [reader EXCEPT ![id] = "running"]
       /\ writer' = [writer EXCEPT ![id] = "insert"]
  /\ UNCHANGED <<clients, clients_poisoned, events, dispatcher, outgoing, written,
                 enqueued, sent, pushed, history, admin>>
  /\ UNCHANGED not_server

\* ----------------------------------------------------------------- device
\* the peer writes one frame on its connection; n numbers the frames of a
\* connection in the order they were written
DeviceSend(id, m) ==
  /\ stream[id].open
  /\ SumTo(sent, MaxClients) < MaxSent
  /\ sent' = [sent EXCEPT ![id] = @ + 1]
  /\ stream' = [stream EXCEPT ![id].frames = Append(@, [msg |-> m, n |-> sent[id] + 1])]
  /\ UNCHANGED <<client_ids, clients, clients_poisoned, events, dispatcher, threads,
                 channels, written, pushed, history, admin>>
  /\ UNCHANGED not_server

\* the peer closes the connection, or the network drops it
DeviceClose(id) ==
  /\ stream[id].open
  /\ stream' = [stream EXCEPT ![id].open = FALSE]
  /\ UNCHANGED <<client_ids, clients, clients_poisoned, events, dispatcher, threads,
                 channels, written, sent, pushed, history, admin>>
  /\ UNCHANGED not_server

\* ----------------------------------------------------------------- reader
\* mpsc::Sender::send on the inbound channel: the event goes to the back; k
\* numbers the events in the order they were pushed
PushEvent(e) ==
  /\ events' = Append(events, [e EXCEPT !.k = pushed + 1])
  /\ pushed' = pushed + 1

IncomingMessage(id, m, n) ==
  [type |-> "IncomingMessage", id |-> id, message |-> m, n |-> n, k |-> 0]
Unexpected(error) ==
  [type |-> "Unexpected", id |-> UnknownId, message |-> None, n |-> 0, k |-> 0, error |-> error]

\* the loop's `ended` flag after an event: set by a decoded Goodbye and by an error
ReaderAfterErrorOnly(e) == IF e.type = "Unexpected" THEN "ended" ELSE "running"
ReaderAfter(e) ==
  IF e.type = "Unexpected" \/ e.message = ServerGoodbye THEN "ended" ELSE "running"

\* Message::receive makes a fresh BufReader on every call: the reader takes
\* whatever has arrived in one read, decodes the first frame from it, and the
\* bytes buffered behind that frame are dropped with the BufReader: `lost`
\* whole frames and, with `tear`, the first part of the frame after them.
ReaderReceive(id) ==
  /\ reader[id] = "running"
  /\ stream[id].frames # <<>>
  /\ ~stream[id].torn
  /\ LET head == Head(stream[id].frames)
         rest == Tail(stream[id].frames)
         e == IncomingMessage(id, head.msg, head.n)
     IN /\ \E lost \in 0..Len(rest), tear \in BOOLEAN :
             /\ tear => lost < Len(rest)
             /\ stream' = [stream EXCEPT ![id].frames = SubSeq(rest, lost + 1, Len(rest)),
                                         ![id].torn = tear]
        /\ PushEvent(e)
        /\ reader' = [reader EXCEPT ![id] = ReaderAfter(e)]
  /\ UNCHANGED <<client_ids, clients, clients_poisoned, dispatcher, writer, channels,
                 written, sent, history, admin>>
  /\ UNCHANGED not_server

\* the stream starts in the middle of a frame: the bytes decode to an error
\* or, by chance, to some message. The decode takes at least what is left of
\* the torn frame, and what is left of the stream is again cut anywhere.
ReaderReceiveTorn(id) ==
  /\ reader[id] = "running"
  /\ stream[id].torn
  /\ \/ /\ PushEvent(Unexpected("Decode"))
        /\ reader' = [reader EXCEPT ![id] = "ended"]
        /\ UNCHANGED stream
     \/ \E g \in PeerMessages, used \in 1..Len(stream[id].frames), tear \in BOOLEAN :
          /\ used = Len(stream[id].frames) => ~tear
          /\ stream' = [stream EXCEPT
                          ![id].frames = SubSeq(@, used + 1, Len(@)), ![id].torn = tear]
          /\ PushEvent(IncomingMessage(id, g, 0))
          /\ reader' = [reader EXCEPT ![id] = ReaderAfter(IncomingMessage(id, g, 0))]
  /\ UNCHANGED <<client_ids, clients, clients_poisoned, dispatcher, writer, channels,
                 written, sent, history, admin>>
  /\ UNCHANGED not_server

\* nothing left to read and the connection is closed: an IO error (EOF)
ReaderEof(id) ==
  /\ reader[id] = "running"
  /\ stream[id].frames = <<>>
  /\ ~stream[id].open
  /\ PushEvent(Unexpected("IO"))
  /\ reader' = [reader EXCEPT ![id] = "ended"]
  /\ UNCHANGED <<client_ids, clients, clients_poisoned, dispatcher, stream, writer,
                 channels, written, sent, history, admin>>
  /\ UNCHANGED not_server

\* ------------------------------------------------------------- dispatcher
\* mpsc::Receiver::recv on the inbound channel: the position of the event taken
RecvIndexNewest(queue) == Len(queue)
RecvIndex(queue) == 1

NextEvent == events[RecvIndex(events)]
EventsAfterRecv ==
  [j \in 1..(Len(events) - 1) |-> IF j < RecvIndex(events) THEN events[j] ELSE events[j + 1]]

\* the dispatcher is at the top of its loop and takes an event of this type
Receives(type) ==
  /\ dispatcher.pc = "recv"
  /\ events # <<>>
  /\ NextEvent.type = type
  /\ events' = EventsAfterRecv
  /\ handled' = handled + 1
  /\ last_n' = IF NextEvent.n > 0 THEN [last_n EXCEPT ![NextEvent.id] = NextEvent.n] ELSE last_n

\* mpsc::Sender::send on a session's outbound channel, which fails once the
\* Receiver is dropped; q numbers a channel's messages in the order they
\* were enqueued
CanSend(ch) == rx_alive[ch]
Enqueue(ch, m) ==
  /\ outgoing' = [outgoing EXCEPT ![ch] = Append(@, [msg |-> m, q |-> enqueued[ch] + 1])]
  /\ enqueued' = [enqueued EXCEPT ![ch] = @ + 1]
  /\ UNCHANGED rx_alive

\* a panic of the dispatcher thread; one raised while the registry guard is
\* alive poisons the registry mutex
Panic(holdsClients) ==
  /\ dispatcher' = [dispatcher EXCEPT !.pc = "panicked"]
  /\ clients_poisoned' = (clients_poisoned \/ holdsClients)

\* ServerEvent::Unexpected(error) => error!(..)
HandleUnexpected ==
  /\ Receives("Unexpected")
  /\ UNCHANGED <<client_ids, clients, clients_poisoned, dispatcher, stream, threads,
                 channels, written, sent, pushed, last_device_info, admin>>
  /\ UNCHANGED not_server

\* Message::Client(_) => unreachable!()
HandleClientMessage ==
  /\ Receives("IncomingMessage")
  /\ NextEvent.message.side = "Client"
  /\ Panic(FALSE)
  /\ UNCHANGED <<client_ids, clients, stream, threads, channels, written, sent, pushed,
                 last_device_info, admin>>
  /\ UNCHANGED not_server

\* ServerMessage::Goodbye => todo!()
HandleGoodbye ==
  /\ Receives("IncomingMessage")
  /\ NextEvent.message = ServerGoodbye
  /\ Panic(FALSE)
  /\ UNCHANGED <<client_ids, clients, stream, threads, channels, written, sent, pushed,
                 last_device_info, admin>>
  /\ UNCHANGED not_server

\* client.pdtcore_built_info = Some(introduction.pdtcore_built_info)
SetBuiltInfo(client, built) == [client EXCEPT !.pdtcore_built_info = Some(built)]

\* ServerMessage::Hello(introduction), up to and including line 130: lock the
\* registry, get_mut(&id).unwrap(), send Goodbye when the build infos are not
\* compatible, record the introduced build info
HandleHello ==
  /\ Receives("IncomingMessage")
  /\ NextEvent.message.side = "Server"
  /\ NextEvent.message.variant = "Hello"
  /\ LET id == NextEvent.id
         built == NextEvent.message.body[1].pdtcore_built_info
         goodbye == ~compatible(LocalBuiltInfo, built)
     IN IF clients_poisoned
          THEN /\ Panic(FALSE)
               /\ UNCHANGED <<clients, channels>>
        ELSE IF ~Registered(id)
          THEN /\ Panic(TRUE)
               /\ UNCHANGED <<clients, channels>>
        ELSE IF goodbye /\ ~CanSend(clients[id][1].sender)
          THEN /\ Panic(TRUE)
               /\ UNCHANGED <<clients, channels>>
        ELSE /\ IF goodbye
                  THEN Enqueue(clients[id][1].sender, ClientMsg("Goodbye"))
                  ELSE UNCHANGED channels
             /\ clients' = [clients EXCEPT ![id] = Some(SetBuiltInfo(@[1], built))]
             /\ dispatcher' = [pc |-> "hello_rdi", id |-> id, built |-> Some(built)]
             /\ UNCHANGED clients_poisoned
  /\ UNCHANGED <<client_ids, stream, threads, written, sent, pushed, last_device_info, admin>>
  /\ UNCHANGED not_server

\* the rest of the Hello handler, lines 132-135, still under the registry
\* lock: client.sender.send(RequestDeviceInfo).unwrap()
HelloRequestDeviceInfo ==
  /\ dispatcher.pc = "hello_rdi"
  /\ LET id == dispatcher.id IN
       IF CanSend(clients[id][1].sender)
         THEN /\ Enqueue(clients[id][1].sender, ClientMsg("RequestDeviceInfo"))
              /\ dispatcher' = DispatcherIdle
              /\ UNCHANGED clients_poisoned
       ELSE /\ Panic(TRUE)
            /\ UNCHANGED channels
  /\ UNCHANGED <<client_ids, clients, events, stream, threads, written, sent, pushed,
                 history, admin>>
  /\ UNCHANGED not_server

\* client.device_info = Some(info)
SetDeviceInfoOnly(client, info) ==
  [client EXCEPT !.device_info = Some(info), !.pdtcore_built_info = None]
SetDeviceInfoDefault(client, info) == [client EXCEPT !.device_info = Some(DeviceInfoDefault)]
SetDeviceInfo(client, info) == [client EXCEPT !.device_info = Some(info)]

\* ServerMessage::DeviceInfo(info)
HandleDeviceInfo ==
  /\ Receives("IncomingMessage")
  /\ NextEvent.message.side = "Server"
  /\ NextEvent.message.variant = "DeviceInfo"
  /\ LET id == NextEvent.id
         info == NextEvent.message.body[1]
     IN IF clients_poisoned
          THEN /\ Panic(FALSE)
               /\ UNCHANGED <<clients, last_device_info>>
        ELSE IF ~Registered(id)
          THEN /\ Panic(TRUE)
               /\ UNCHANGED <<clients, last_device_info>>
        ELSE /\ clients' = [clients EXCEPT ![id] = Some(SetDeviceInfo(@[1], info))]
             /\ last_device_info' = [last_device_info EXCEPT ![id] = Some(info)]
             /\ UNCHANGED <<dispatcher, clients_poisoned>>
  /\ UNCHANGED <<client_ids, stream, threads, channels, written, sent, pushed, admin>>
  /\ UNCHANGED not_server

\* ----------------------------------------------------------------- writer
NewServerClient(id) ==
  [id |-> id, pdtcore_built_info |-> None, device_info |-> None, sender |-> id]

\* client_map.insert(id, client)
InsertClient(map, id, client) == [map EXCEPT ![id] = Some(client)]

\* senders.remove(&id)
RemoveClientAll(map, id) == [i \in Ids |-> None]
RemoveClient(map, id) == [map EXCEPT ![id] = None]

\* the Sender of a session's outbound channel lives in the ServerClient: in
\* the writer's closure until the insert, in the registry afterwards
SenderAlive(id) ==
  writer[id] = "insert" \/ \E i \in Ids : Registered(i) /\ clients[i][1].sender = id

\* the writer thread's first block: lock().unwrap() and insert. On a poisoned
\* mutex the thread panics and drops the ServerClient and the Receiver.
WriterInsert(id) ==
  /\ writer[id] = "insert"
  /\ ClientsLockFree
  /\ IF clients_poisoned
       THEN /\ writer' = [writer EXCEPT ![id] = "panicked"]
            /\ rx_alive' = [rx_alive EXCEPT ![id] = FALSE]
            /\ UNCHANGED clients
     ELSE /\ writer' = [writer EXCEPT ![id] = "recv"]
          /\ clients' = InsertClient(clients, id, NewServerClient(id))
          /\ UNCHANGED rx_alive
  /\ UNCHANGED <<client_ids, clients_poisoned, events, dispatcher, stream, reader,
                 outgoing, enqueued, written, sent, pushed, history, admin>>
  /\ UNCHANGED not_server

\* mpsc::Receiver::recv on a session's outbound channel: the position taken
OutgoingIndexNewest(queue) == Len(queue)
OutgoingIndex(queue) == 1

\* the loop's `ended` flag after an iteration: set when recv failed (every
\* Sender is gone) and when the write failed
WriterEndedOnCloseOnly(ok, closed) == closed
WriterEnded(ok, closed) == closed \/ ~ok

\* one iteration of handle_client_outgoing_messages: recv (an error, when
\* every Sender is gone, stands for a final Goodbye and ends the loop), then
\* write to the socket; a failed write ends the loop. The write can fail only
\* on a connection that is no longer open. Returning drops the Receiver and
\* with it what is still queued.
WriterSend(id) ==
  /\ writer[id] = "recv"
  /\ outgoing[id] # <<>> \/ ~SenderAlive(id)
  /\ LET closed == outgoing[id] = <<>>
         at == OutgoingIndex(outgoing[id])
         message == IF closed THEN [msg |-> ClientMsg("Goodbye"), q |-> 0] ELSE outgoing[id][at]
         left == IF closed THEN <<>>
                 ELSE [j \in 1..(Len(outgoing[id]) - 1) |->
                         IF j < at THEN outgoing[id][j] ELSE outgoing[id][j + 1]]
     IN \E ok \in BOOLEAN :
          /\ ~ok => ~stream[id].open
          /\ written' = IF ok THEN [written EXCEPT ![id] = Some(message)] ELSE written
          /\ IF ~WriterEnded(ok, closed)
               THEN /\ outgoing' = [outgoing EXCEPT ![id] = left]
                    /\ UNCHANGED <<writer, rx_alive>>
             ELSE /\ outgoing' = [outgoing EXCEPT ![id] = <<>>]
                  /\ rx_alive' = [rx_alive EXCEPT ![id] = FALSE]
                  /\ writer' = [writer EXCEPT ![id] = "remove"]
  /\ UNCHANGED <<client_ids, clients, clients_poisoned, events, dispatcher, stream,
                 reader, enqueued, sent, pushed, history, admin>>
  /\ UNCHANGED not_server

\* the writer thread's last block: lock().unwrap() and remove
WriterRemove(id) ==
  /\ writer[id] = "remove"
  /\ ClientsLockFree
  /\ IF clients_poisoned
       THEN /\ writer' = [writer EXCEPT ![id] = "panicked"]
            /\ UNCHANGED clients
     ELSE /\ writer' = [writer EXCEPT ![id] = "done"]
          /\ clients' = RemoveClient(clients, id)
  /\ UNCHANGED <<client_ids, clients_poisoned, events, dispatcher, stream, reader,
                 channels, written, sent, pushed, history, admin>>
  /\ UNCHANGED not_server

\* ------------------------------------------------------------------ admin
IdToString(id) == ToString(id)

\* Server::get_clients, the Vec it returns (in ascending id order here; the
\* HashMap's iteration order is unspecified)
ClientOfDefault(id, server_client) == [id |-> IdToString(id), device_info |-> DeviceInfoDefault]
ClientOf(id, server_client) ==
  [id |-> IdToString(id),
   device_info |-> IF server_client.device_info = None THEN DeviceInfoDefault
                   ELSE server_client.device_info[1]]
RECURSIVE get_clients_from(_, _)
get_clients_from(map, id) ==
  IF id > MaxClients THEN <<>>
  ELSE (IF map[id] = None THEN <<>> ELSE <<ClientOf(id, map[id][1])>>)
         \o get_clients_from(map, id + 1)
get_clients_output(map) == get_clients_from(map, 1)

\* Server::get_clients, a read-only call: self.clients.lock().unwrap() panics
\* on a poisoned mutex, otherwise the call returns the snapshot
get_clients ==
  IF clients_poisoned THEN [result |-> "panic", output |-> <<>>]
  ELSE [result |-> "Ok", output |-> get_clients_output(clients)]
GetClients ==
  /\ ClientsLockFree
  /\ get_clients.result \in {"panic", "Ok"}
  /\ UNCHANGED vars

\* Server::send, what it returns
SendResultNoLookup(to) ==
  IF clients_poisoned THEN "Deadlock"
  ELSE IF Registered(to) /\ ~CanSend(clients[to][1].sender) THEN "SendChannel"
  ELSE "Ok"
SendResult(to) ==
  IF clients_poisoned THEN "Deadlock"
  ELSE IF ~Registered(to) THEN "ClientNotFound"
  ELSE IF ~CanSend(clients[to][1].sender) THEN "SendChannel"
  ELSE "Ok"

\* Server::send: the message is enqueued when the call returns Ok
Send(to, message) ==
  /\ admin_calls < MaxAdminCalls
  /\ ClientsLockFree
  /\ admin_calls' = admin_calls + 1
  /\ IF SendResult(to) = "Ok"
       THEN Enqueue(IF Registered(to) THEN clients[to][1].sender ELSE to, message)
       ELSE UNCHANGED channels
  /\ UNCHANGED <<client_ids, clients, clients_poisoned, events, dispatcher, stream,
                 threads, written, sent, pushed, history>>
  /\ UNCHANGED not_server

\* ----------------------------------------------------------------- client
\* receive(20) in Client::run, and the backoff of the retry loop
max_retries == 20
BackoffAfter == 10
BackoffMs == 1000

\* the messages the server side can put on the client's connection
CommonEnd == [side |-> "Common", variant |-> "End", body |-> <<>>]
ClientInbound ==
  {CommonEnd, ClientMsg("ScreenOff"), ClientMsg("PowerOff"), ClientMsg("Restart"),
   ServerMsg("Introduction", <<>>)}

Connected == [up |-> TRUE, readable |-> TRUE, shut |-> FALSE]

\* Message::send on the client's stream: fails after the client shut the
\* socket down, succeeds on an intact connection, and can do either on a
\* connection that was lost
WriteResults(write_stream) ==
  IF write_stream.shut THEN {FALSE} ELSE IF write_stream.up THEN {TRUE} ELSE {TRUE, FALSE}

Returns(result) == run' = [run EXCEPT !.pc = "returned", !.result = Some(result)]
Panics == run' = [run EXCEPT !.pc = "panicked"]

\* the network or the server drops the client's connection
ConnectionLost ==
  /\ tcp_stream.up
  /\ run.pc \notin {"returned", "panicked"}
  /\ losses < MaxLosses
  /\ losses' = losses + 1
  /\ tcp_stream' = [tcp_stream EXCEPT !.up = FALSE]
  /\ UNCHANGED <<shutdown_request_flag, run, wire, attempt, connects, last_sleep, inbound>>
  /\ UNCHANGED not_client

\* an external holder of the shared flag requests the shutdown and forces the
\* read half of the socket closed
ControllerShutdown ==
  /\ ~shutdown_request_flag
  /\ run.pc \notin {"returned", "panicked"}
  /\ shutdown_request_flag' = TRUE
  /\ tcp_stream' = [tcp_stream EXCEPT !.readable = FALSE]
  /\ UNCHANGED <<run, wire, attempt, connects, last_sleep, losses, inbound>>
  /\ UNCHANGED not_client

\* Client::run, line 183: self.introduction()?
ClientIntroduction ==
  /\ run.pc = "introduction"
  /\ \E ok \in WriteResults(tcp_stream) :
       IF ok THEN /\ wire' = Append(wire, "Introduction")
                  /\ run' = [run EXCEPT !.pc = "receive"]
       ELSE /\ Returns("Send")
            /\ UNCHANGED wire
  /\ UNCHANGED <<shutdown_request_flag, tcp_stream, attempt, connects, last_sleep,
                 losses, inbound>>
  /\ UNCHANGED not_client

\* Client::receive, lines 140-143: with the flag set it reads nothing and
\* reports no more messages, and run goes on to its last self.end()
ClientReceive ==
  /\ run.pc = "receive"
  /\ run' = [run EXCEPT !.pc = IF shutdown_request_flag THEN "end" ELSE "reading"]
  /\ UNCHANGED <<shutdown_request_flag, tcp_stream, wire, attempt, connects, last_sleep,
                 losses, inbound>>
  /\ UNCHANGED not_client

\* Client::receive, line 150: what an error of Message::receive leads to
AfterErrorAlwaysRetry(flag) == "reconnect"
AfterError(flag) == IF flag THEN "end" ELSE "reconnect"

\* Client::receive, lines 144-155: Message::receive returns a message, or an
\* error (the connection is lost, the read half is closed, or a frame does
\* not decode); on an error the flag is looked at again
ClientRead ==
  /\ run.pc = "reading"
  /\ \/ /\ tcp_stream.up /\ tcp_stream.readable
        /\ inbound < MaxInbound
        /\ inbound' = inbound + 1
        /\ \E m \in ClientInbound : run' = [run EXCEPT !.pc = "handle", !.message = Some(m)]
        /\ UNCHANGED <<attempt, connects>>
     \/ /\ \/ ~tcp_stream.up \/ ~tcp_stream.readable
           \/ inbound < MaxInbound
        /\ inbound' = IF tcp_stream.up /\ tcp_stream.readable THEN inbound + 1 ELSE inbound
        /\ run' = [run EXCEPT !.pc = AfterError(shutdown_request_flag),
                               !.error = Some("Receive"), !.retry = 0]
        /\ attempt' = 0
        /\ connects' = 0
  /\ UNCHANGED <<shutdown_request_flag, tcp_stream, wire, last_sleep, losses>>
  /\ UNCHANGED not_client

\* the retry loop's test, line 156
RetryAgainBelow(retry, max) == retry < max
RetryAgain(retry, max) == retry <= max

\* the sleep after a failed reconnect, lines 166-170, in ms
BackoffLinear(retry) == BackoffMs * retry
Backoff(retry) == IF retry > BackoffAfter THEN BackoffMs * retry ELSE BackoffMs

\* Client::reconnect, what a call can come to: Closed with the flag set,
\* otherwise an error of peer_addr, an error of TcpStream::connect, a new
\* connection on which the introduction fails, or a new connection with the
\* introduction written
ReconnectResults(flag) ==
  IF flag THEN {"Closed"} ELSE {"PeerAddr", "Connect", "Send", "Ok"}

\* Client::reconnect, lines 131-133: what is written on the connection the
\* client has after the call, a new one once TcpStream::connect succeeded
ReconnectWireNoIntroduction(result) == IF result \in {"Ok", "Send"} THEN <<>> ELSE wire
ReconnectWire(result) ==
  IF result = "Ok" THEN <<"Introduction">>
  ELSE IF result = "Send" THEN <<>>
  ELSE wire

\* one turn of the retry loop of Client::receive, lines 156-175: count the
\* retry, reconnect, and on success receive again, on failure sleep
ClientReconnect ==
  /\ run.pc = "reconnect"
  /\ IF ~RetryAgain(run.retry, max_retries)
       THEN /\ Returns("Receive")
            /\ UNCHANGED <<tcp_stream, wire, attempt, connects, last_sleep>>
     ELSE \E result \in ReconnectResults(shutdown_request_flag) :
            /\ attempt' = attempt + 1
            /\ connects' = IF result \in {"Connect", "Send", "Ok"} THEN connects + 1 ELSE connects
            /\ tcp_stream' = IF result = "Ok" THEN Connected
                             ELSE IF result = "Send" THEN [Connected EXCEPT !.up = FALSE]
                             ELSE tcp_stream
            /\ wire' = ReconnectWire(result)
            /\ IF result = "Ok"
                 THEN /\ run' = [run EXCEPT !.pc = "receive", !.error = None, !.retry = @ + 1]
                      /\ UNCHANGED last_sleep
               ELSE /\ run' = [run EXCEPT !.retry = @ + 1]
                    /\ last_sleep' = Some(Backoff(run.retry + 1))
  /\ UNCHANGED <<shutdown_request_flag, losses, inbound>>
  /\ UNCHANGED not_client

\* Client::request_shutdown: what it stores in the flag
RequestShutdown(flag) == FALSE

\* Client::end, what a call can come to: the End frame is written and the
\* socket shut down; the write fails; or the shutdown fails
EndResults(write_stream) ==
  IF write_stream.shut THEN {"Send"}
  ELSE IF write_stream.up THEN {"Ok"}
  ELSE {"Ok", "Send", "Shutdown"}
EndWire(result) == IF result = "Send" THEN wire ELSE Append(wire, "End")
EndStream(result) == IF result = "Ok" THEN [tcp_stream EXCEPT !.shut = TRUE] ELSE tcp_stream

\* the OS-action collaborator, Command::new("xset")..spawn()..wait()
CommandResults == {"Ok", "Command"}

\* the body of the loop of Client::run, lines 187-190, with
\* Client::handle_message: a message of the server side is unreachable!(),
\* End requests the shutdown and ends, ScreenOff runs the command, PowerOff
\* and Restart are todo!()
ClientHandle ==
  /\ run.pc = "handle"
  /\ LET message == run.message[1] IN
       IF message = CommonEnd
         THEN /\ shutdown_request_flag' = RequestShutdown(shutdown_request_flag)
              /\ \E result \in EndResults(tcp_stream) :
                   /\ wire' = EndWire(result)
                   /\ tcp_stream' = EndStream(result)
                   /\ IF result = "Ok"
                        THEN run' = [run EXCEPT !.pc = "end", !.message = None]
                      ELSE Returns(result)
       ELSE IF message = ClientMsg("ScreenOff")
         THEN /\ \E result \in CommandResults :
                   IF result = "Ok"
                     THEN run' = [run EXCEPT !.pc = "receive", !.message = None]
                   ELSE Returns(result)
              /\ UNCHANGED <<shutdown_request_flag, tcp_stream, wire>>
       ELSE /\ Panics
            /\ UNCHANGED <<shutdown_request_flag, tcp_stream, wire>>
  /\ UNCHANGED <<attempt, connects, last_sleep, losses, inbound>>
  /\ UNCHANGED not_client

\* Client::run, lines 189 and 194: the call of self.end() run returns with
ClientEnd ==
  /\ run.pc = "end"
  /\ \E result \in EndResults(tcp_stream) :
       /\ wire' = EndWire(result)
       /\ tcp_stream' = EndStream(result)
       /\ Returns(result)
  /\ UNCHANGED <<shutdown_request_flag, attempt, connects, last_sleep, losses, inbound>>
  /\ UNCHANGED not_client

\* --------------------------------------------------------------- protocol
\* Message::send and Message::receive, bincode with config::standard(): an
\* enum is the index of its variant followed by the variant's fields, a struct
\* is its fields in order, a String is its length followed by its bytes (all
\* numbers below 251 are one byte). Strings are sequences of bytes here.
Texts == {<<>>, <<1, 0>>}

ClientVariants ==
  <<"ScreenOff", "ScreenOn", "PowerOff", "Restart", "Goodbye", "RequestDeviceInfo">>
ServerVariants == <<"Hello", "DeviceInfo", "Goodbye">>
VariantIndex(variants, variant) ==
  (CHOOSE j \in 1..Len(variants) : variants[j] = variant) - 1

WireBuiltInfo(major) ==
  [pkg_version |-> <<65>>, pkg_version_major |-> major, pkg_version_minor |-> <<65>>,
   pkg_version_patch |-> <<>>, pkg_version_pre |-> <<>>, target |-> <<65>>,
   host |-> <<65>>, profile |-> <<65>>]
WireDeviceInfo(name, os) ==
  [name |-> name, os |-> os, os_version |-> <<65>>, uptime |-> <<>>]

\* the messages written on the stream
WireMessages ==
  {ClientMsg(ClientVariants[j]) : j \in 1..Len(ClientVariants)}
    \cup {ServerGoodbye}
    \cup {DeviceInfoMsg(WireDeviceInfo(name, os)) : name \in Texts, os \in Texts}
    \cup {ServerMsg("Hello", <<[name |-> name, pdtcore_built_info |-> WireBuiltInfo(<<1, 0>>)]>>) :
            name \in Texts}

encode_string_raw(string) == string
encode_string(string) == <<Len(string)>> \o string

encode_built_info(built) ==
  encode_string(built.pkg_version) \o encode_string(built.pkg_version_major)
    \o encode_string(built.pkg_version_minor) \o encode_string(built.pkg_version_patch)
    \o encode_string(built.pkg_version_pre) \o encode_string(built.target)
    \o encode_string(built.host) \o encode_string(built.profile)

encode_device_info(info) ==
  encode_string(info.name) \o encode_string(info.os)
    \o encode_string(info.os_version) \o encode_string(info.uptime)

\* bincode::encode_to_vec(self, config::standard())
encode(message) ==
  IF message.side = "Client"
    THEN <<0, VariantIndex(ClientVariants, message.variant)>>
  ELSE <<1, VariantIndex(ServerVariants, message.variant)>>
         \o (IF message.variant = "Hello"
               THEN encode_string(message.body[1].name)
                      \o encode_built_info(message.body[1].pdtcore_built_info)
             ELSE IF message.variant = "DeviceInfo"
               THEN encode_device_info(message.body[1])
             ELSE <<>>)

\* decoding `count` Strings from position `at`: the Strings and the position
\* behind them, or UnexpectedEof when the bytes end first
RECURSIVE decode_strings(_, _, _)
decode_strings(input, at, count) ==
  IF count = 0 THEN [result |-> "Ok", values |-> <<>>, next |-> at]
  ELSE IF at > Len(input) \/ at + input[at] > Len(input)
    THEN [result |-> "UnexpectedEof", values |-> <<>>, next |-> at]
  ELSE LET rest == decode_strings(input, at + input[at] + 1, count - 1) IN
         [rest EXCEPT !.values = <<SubSeq(input, at + 1, at + input[at])>> \o @]

DecodeError(error) == [result |-> error, message |-> None, used |-> 0]
Decoded(message, used) == [result |-> "Ok", message |-> Some(message), used |-> used]

\* bincode::decode_from_reader::<Message>: the message at the front of the
\* bytes and the number of bytes it takes, UnexpectedEof when the bytes end
\* before the message does, Decode when a variant index is none of the enum's
decode(input) ==
  IF input = <<>> THEN DecodeError("UnexpectedEof")
  ELSE IF input[1] \notin {0, 1} THEN DecodeError("Decode")
  ELSE IF Len(input) < 2 THEN DecodeError("UnexpectedEof")
  ELSE IF input[1] = 0
    THEN (IF input[2] >= Len(ClientVariants) THEN DecodeError("Decode")
          ELSE Decoded(ClientMsg(ClientVariants[input[2] + 1]), 2))
  ELSE IF input[2] >= Len(ServerVariants) THEN DecodeError("Decode")
  ELSE IF ServerVariants[input[2] + 1] = "Goodbye" THEN Decoded(ServerGoodbye, 2)
  ELSE IF ServerVariants[input[2] + 1] = "DeviceInfo"
    THEN LET f == decode_strings(input, 3, 4) IN
           IF f.result # "Ok" THEN DecodeError(f.result)
           ELSE Decoded(DeviceInfoMsg([name |-> f.values[1], os |-> f.values[2],
                                       os_version |-> f.values[3], uptime |-> f.values[4]]),
                        f.next - 1)
  ELSE LET f == decode_strings(input, 3, 9) IN
         IF f.result # "Ok" THEN DecodeError(f.result)
         ELSE Decoded(ServerMsg("Hello",
                        <<[name |-> f.values[1],
                           pdtcore_built_info |->
                             [pkg_version |-> f.values[2], pkg_version_major |-> f.values[3],
                              pkg_version_minor |-> f.values[4],
                              pkg_version_patch |-> f.values[5],
                              pkg_version_pre |-> f.values[6], target |-> f.values[7],
                              host |-> f.values[8], profile |-> f.values[9]]]>>),
                      f.next - 1)

\* Message::send: write_all of the encoded message
ProtocolSend(message) ==
  /\ ~eof
  /\ Len(sent_messages) < MaxWritten
  /\ bytes' = bytes \o encode(message)
  /\ sent_messages' = Append(sent_messages, message)
  /\ UNCHANGED <<eof, received_messages>>
  /\ UNCHANGED not_protocol

\* the writing end closes the stream
ProtocolClose ==
  /\ ~eof
  /\ eof' = TRUE
  /\ UNCHANGED <<bytes, sent_messages, received_messages>>
  /\ UNCHANGED not_protocol

\* what a call's BufReader has taken off the stream when the call returns: it
\* fills its buffer with whatever has arrived, at least the bytes the decoder
\* used, and is dropped with the rest of its buffer
BufReaderTakes(used, available) == used..available

\* Message::receive: a new BufReader on the stream, one message decoded from
\* it. The call waits while the bytes that have arrived do not make a message
\* and the stream is open.
ProtocolReceive ==
  /\ Len(received_messages) < MaxWritten
  /\ LET d == decode(bytes) IN
       /\ d.result = "UnexpectedEof" => eof
       /\ received_messages' = Append(received_messages, [result |-> d.result, message |-> d.message])
       /\ \E taken \in BufReaderTakes(IF d.result = "Ok" THEN d.used ELSE IF bytes = <<>> THEN 0 ELSE 1,
                                      Len(bytes)) :
            bytes' = SubSeq(bytes, taken + 1, Len(bytes))
  /\ UNCHANGED <<eof, sent_messages>>
  /\ UNCHANGED not_protocol

\* ------------------------------------------------------------------ locks
\* the threads of the server and the guards they take, in the order of the
\* code. Mutex::lock waits while another thread holds the guard; on a poisoned
\* mutex it returns an error, which `?` returns and unwrap() panics on. A
\* guard dropped while its thread panics poisons the mutex.
Free(l) == mutex[l].holder = NoThread
Guard(m, t, l) == [m EXCEPT ![l].holder = t]
Drop(m, l) == [m EXCEPT ![l].holder = NoThread]
Unwind(m, l) == [m EXCEPT ![l] = [holder |-> NoThread, poisoned |-> TRUE]]

Goes(t, pc) == thread' = [thread EXCEPT ![t].pc = pc]

\* the accept loop, Server::run lines 234-245: a connection arrives
AcceptIncoming ==
  /\ thread[AcceptLoop].pc = "incoming"
  /\ accepted < MaxLockSessions
  /\ Goes(AcceptLoop, "client_ids.lock")
  /\ UNCHANGED <<mutex, pending, accepted>>
  /\ UNCHANGED not_locks

\* line 248: client_ids.lock().unwrap()
AcceptLockIds ==
  /\ thread[AcceptLoop].pc = "client_ids.lock"
  /\ Free("client_ids")
  /\ IF mutex["client_ids"].poisoned
       THEN Goes(AcceptLoop, "panicked") /\ UNCHANGED mutex
     ELSE Goes(AcceptLoop, "push") /\ mutex' = Guard(mutex, AcceptLoop, "client_ids")
  /\ UNCHANGED <<pending, accepted>>
  /\ UNCHANGED not_locks

\* lines 252-287: push the id, drop the guard at the end of the block, spawn
\* the reader and the writer of the connection
AcceptSpawn ==
  /\ thread[AcceptLoop].pc = "push"
  /\ mutex' = Drop(mutex, "client_ids")
  /\ accepted' = accepted + 1
  /\ thread' = [thread EXCEPT ![AcceptLoop].pc = "incoming",
                              ![Reader(accepted + 1)].pc = "receive",
                              ![Writer(accepted + 1)].pc = "clients.lock.insert"]
  /\ UNCHANGED pending
  /\ UNCHANGED not_locks

\* handle_client_incoming_messages, lines 160-173: Message::receive returns,
\* with a Goodbye or an error the loop's last turn
LockReaderReceive(i) ==
  /\ thread[Reader(i)].pc = "receive"
  /\ \E ended \in BOOLEAN :
       thread' = [thread EXCEPT ![Reader(i)].pc = "sender.lock", ![Reader(i)].ended = ended]
  /\ UNCHANGED <<mutex, pending, accepted>>
  /\ UNCHANGED not_locks

\* line 175: sender.lock()?
LockReaderLock(i) ==
  /\ thread[Reader(i)].pc = "sender.lock"
  /\ Free("incoming_server_event_sender")
  /\ IF mutex["incoming_server_event_sender"].poisoned
       THEN Goes(Reader(i), "done") /\ UNCHANGED mutex
     ELSE /\ Goes(Reader(i), "send")
          /\ mutex' = Guard(mutex, Reader(i), "incoming_server_event_sender")
  /\ UNCHANGED <<pending, accepted>>
  /\ UNCHANGED not_locks

\* lines 179-180: sender.send(event)?, which does not wait (the channel is
\* unbounded), and the guard is dropped at the end of the loop's body
LockReaderSend(i) ==
  /\ thread[Reader(i)].pc = "send"
  /\ pending < MaxLockEvents
  /\ pending' = pending + 1
  /\ mutex' = Drop(mutex, "incoming_server_event_sender")
  /\ Goes(Reader(i), IF thread[Reader(i)].ended THEN "done" ELSE "receive")
  /\ UNCHANGED accepted
  /\ UNCHANGED not_locks

\* handle_messages, line 111: incoming_server_event_receiver.lock()?
DispatcherLockReceiver ==
  /\ thread[Dispatcher].pc = "receiver.lock"
  /\ Free("incoming_server_event_receiver")
  /\ IF mutex["incoming_server_event_receiver"].poisoned
       THEN Goes(Dispatcher, "done") /\ UNCHANGED mutex
     ELSE /\ Goes(Dispatcher, "recv")
          /\ mutex' = Guard(mutex, Dispatcher, "incoming_server_event_receiver")
  /\ UNCHANGED <<pending, accepted>>
  /\ UNCHANGED not_locks

\* the events by the arm of handle_messages that takes them
EventArms == {"Unexpected", "Client", "Goodbye", "Hello", "DeviceInfo"}

\* lines 112-146: receiver.recv()? under the receiver's guard, then the match:
\* Unexpected is logged and the loop's body ends, dropping the guard; a
\* Message::Client and a Goodbye panic; Hello and DeviceInfo go on to lock the
\* registry
DispatcherRecv ==
  /\ thread[Dispatcher].pc = "recv"
  /\ pending > 0
  /\ pending' = pending - 1
  /\ \E arm \in EventArms :
       IF arm = "Unexpected"
         THEN /\ Goes(Dispatcher, "receiver.lock")
              /\ mutex' = Drop(mutex, "incoming_server_event_receiver")
       ELSE IF arm \in {"Client", "Goodbye"}
         THEN /\ Goes(Dispatcher, "panicked")
              /\ mutex' = Unwind(mutex, "incoming_server_event_receiver")
       ELSE /\ Goes(Dispatcher, "clients.lock")
            /\ UNCHANGED mutex
  /\ UNCHANGED accepted
  /\ UNCHANGED not_locks

\* lines 123 and 139: self.clients.lock().unwrap()
DispatcherLockClients ==
  /\ thread[Dispatcher].pc = "clients.lock"
  /\ Free("clients")
  /\ IF mutex["clients"].poisoned
       THEN /\ Goes(Dispatcher, "panicked")
            /\ mutex' = Unwind(mutex, "incoming_server_event_receiver")
     ELSE /\ Goes(Dispatcher, "handle")
          /\ mutex' = Guard(mutex, Dispatcher, "clients")
  /\ UNCHANGED <<pending, accepted>>
  /\ UNCHANGED not_locks

\* lines 124-143 under both guards: get_mut(&id).unwrap() and the sends'
\* unwrap() can panic; the sends do not wait; at the end of the arm both
\* guards are dropped
DispatcherHandle ==
  /\ thread[Dispatcher].pc = "handle"
  /\ \E panics \in BOOLEAN :
       IF panics
         THEN /\ Goes(Dispatcher, "panicked")
              /\ mutex' = Unwind(Unwind(mutex, "clients"), "incoming_server_event_receiver")
       ELSE /\ Goes(Dispatcher, "receiver.lock")
            /\ mutex' = Drop(Drop(mutex, "clients"), "incoming_server_event_receiver")
  /\ UNCHANGED <<pending, accepted>>
  /\ UNCHANGED not_locks

\* the writer thread, lines 273 and 281: server_client_map.lock().unwrap()
LockWriterLock(i) ==
  /\ thread[Writer(i)].pc \in {"clients.lock.insert", "clients.lock.remove"}
  /\ Free("clients")
  /\ IF mutex["clients"].poisoned
       THEN Goes(Writer(i), "panicked") /\ UNCHANGED mutex
     ELSE /\ Goes(Writer(i), IF thread[Writer(i)].pc = "clients.lock.insert"
                               THEN "insert" ELSE "remove")
          /\ mutex' = Guard(mutex, Writer(i), "clients")
  /\ UNCHANGED <<pending, accepted>>
  /\ UNCHANGED not_locks

\* lines 272-278: the block of the insert ends and drops its guard
InsertBlockEndKeepsGuard(m) == m
InsertBlockEnd(m) == Drop(m, "clients")

\* lines 277-279: insert, then into handle_client_outgoing_messages
LockWriterInsert(i) ==
  /\ thread[Writer(i)].pc = "insert"
  /\ mutex' = InsertBlockEnd(mutex)
  /\ Goes(Writer(i), "recv")
  /\ UNCHANGED <<pending, accepted>>
  /\ UNCHANGED not_locks

\* handle_client_outgoing_messages, line 190: receiver.recv() returns, a
\* message or the channel's error
LockWriterRecv(i) ==
  /\ thread[Writer(i)].pc = "recv"
  /\ \E ended \in BOOLEAN :
       thread' = [thread EXCEPT ![Writer(i)].pc = "write", ![Writer(i)].ended = ended]
  /\ UNCHANGED <<mutex, pending, accepted>>
  /\ UNCHANGED not_locks

\* lines 201-211: message.send(write) returns; after a recv error or a failed
\* write the loop ends and the thread goes on to the remove
LockWriterWrite(i) ==
  /\ thread[Writer(i)].pc = "write"
  /\ \E ok \in BOOLEAN :
       Goes(Writer(i), IF WriterEnded(ok, thread[Writer(i)].ended)
                         THEN "clients.lock.remove" ELSE "recv")
  /\ UNCHANGED <<mutex, pending, accepted>>
  /\ UNCHANGED not_locks

\* lines 285-286: remove, and the block's end drops the guard
LockWriterRemove(i) ==
  /\ thread[Writer(i)].pc = "remove"
  /\ mutex' = Drop(mutex, "clients")
  /\ Goes(Writer(i), "done")
  /\ UNCHANGED <<pending, accepted>>
  /\ UNCHANGED not_locks

\* the handlers of the web interface: index calls get_clients, screen_off and
\* screen_on call send
AdminCalls == {"get_clients", "send"}

\* a request arrives and its handler starts
AdminRequest(k) ==
  /\ thread[Admin(k)].pc = "idle"
  /\ \E call \in AdminCalls :
       thread' = [thread EXCEPT ![Admin(k)].pc = "state.lock", ![Admin(k)].call = call]
  /\ UNCHANGED <<mutex, pending, accepted>>
  /\ UNCHANGED not_locks

\* main.rs lines 139, 161, 179: state.lock()?
AdminLockState(k) ==
  /\ thread[Admin(k)].pc = "state.lock"
  /\ Free("state")
  /\ IF mutex["state"].poisoned
       THEN Goes(Admin(k), "idle") /\ UNCHANGED mutex
     ELSE Goes(Admin(k), "server.lock") /\ mutex' = Guard(mutex, Admin(k), "state")
  /\ UNCHANGED <<pending, accepted>>
  /\ UNCHANGED not_locks

\* main.rs lines 142, 165, 183: state.server.lock()? under the state's guard
AdminLockServer(k) ==
  /\ thread[Admin(k)].pc = "server.lock"
  /\ Free("server")
  /\ IF mutex["server"].poisoned
       THEN Goes(Admin(k), "idle") /\ mutex' = Drop(mutex, "state")
     ELSE Goes(Admin(k), "clients.lock") /\ mutex' = Guard(mutex, Admin(k), "server")
  /\ UNCHANGED <<pending, accepted>>
  /\ UNCHANGED not_locks

\* server.rs line 301, self.clients.lock().unwrap() in get_clients, and line
\* 315, self.clients.lock() in send, which returns Deadlock on an error; both
\* under the guards of the state and of the server
AdminLockClients(k) ==
  /\ thread[Admin(k)].pc = "clients.lock"
  /\ Free("clients")
  /\ IF ~mutex["clients"].poisoned
       THEN Goes(Admin(k), "call") /\ mutex' = Guard(mutex, Admin(k), "clients")
     ELSE IF thread[Admin(k)].call = "get_clients"
       THEN Goes(Admin(k), "idle") /\ mutex' = Unwind(Unwind(mutex, "server"), "state")
     ELSE Goes(Admin(k), "idle") /\ mutex' = Drop(Drop(mutex, "server"), "state")
  /\ UNCHANGED <<pending, accepted>>
  /\ UNCHANGED not_locks

\* server.rs lines 302-311 and 319-329, under the three guards: the snapshot,
\* or the send on the session's channel, which does not wait; the call returns
\* and the three guards are dropped
AdminReturn(k) ==
  /\ thread[Admin(k)].pc = "call"
  /\ Goes(Admin(k), "idle")
  /\ mutex' = Drop(Drop(Drop(mutex, "clients"), "server"), "state")
  /\ UNCHANGED <<pending, accepted>>
  /\ UNCHANGED not_locks

\* ---------------------------------------------------------- specification
Next ==
  \/ Accept
  \/ \E id \in Ids, m \in PeerMessages : DeviceSend(id, m)
  \/ \E id \in Ids : DeviceClose(id)
  \/ \E id \in Ids : ReaderReceive(id)
  \/ \E id \in Ids : ReaderReceiveTorn(id)
  \/ \E id \in Ids : ReaderEof(id)
  \/ HandleUnexpected
  \/ HandleClientMessage
  \/ HandleGoodbye
  \/ HandleHello
  \/ HelloRequestDeviceInfo
  \/ HandleDeviceInfo
  \/ \E id \in Ids : WriterInsert(id)
  \/ \E id \in Ids : WriterSend(id)
  \/ \E id \in Ids : WriterRemove(id)
  \/ GetClients
  \/ \E to \in Ids, m \in AdminMessages : Send(to, m)

Spec == Init /\ [][Next]_vars

\* one run of the client, with its connection and the holder of its flag
ClientNext ==
  \/ ConnectionLost
  \/ ControllerShutdown
  \/ ClientIntroduction
  \/ ClientReceive
  \/ ClientRead
  \/ ClientReconnect
  \/ ClientHandle
  \/ ClientEnd

ClientSpec == Init /\ [][ClientNext]_vars

\* one stream, written with Message::send and read with Message::receive
ProtocolNext ==
  \/ \E message \in WireMessages : ProtocolSend(message)
  \/ ProtocolClose
  \/ ProtocolReceive

ProtocolSpec == Init /\ [][ProtocolNext]_vars

\* the threads of the server, step by step at their locks
LockNext ==
  \/ AcceptIncoming
  \/ AcceptLockIds
  \/ AcceptSpawn
  \/ \E i \in LockSessions : LockReaderReceive(i)
  \/ \E i \in LockSessions : LockReaderLock(i)
  \/ \E i \in LockSessions : LockReaderSend(i)
  \/ DispatcherLockReceiver
  \/ DispatcherRecv
  \/ DispatcherLockClients
  \/ DispatcherHandle
  \/ \E i \in LockSessions : LockWriterLock(i)
  \/ \E i \in LockSessions : LockWriterInsert(i)
  \/ \E i \in LockSessions : LockWriterRecv(i)
  \/ \E i \in LockSessions : LockWriterWrite(i)
  \/ \E i \in LockSessions : LockWriterRemove(i)
  \/ \E k \in AdminThreads : AdminRequest(k)
  \/ \E k \in AdminThreads : AdminLockState(k)
  \/ \E k \in AdminThreads : AdminLockServer(k)
  \/ \E k \in AdminThreads : AdminLockClients(k)
  \/ \E k \in AdminThreads : AdminReturn(k)

LockSpec == Init /\ [][LockNext]_vars

\* ------------------------------------------------------------- properties
\* the dispatcher takes an event from the inbound channel in this step
Takes == dispatcher.pc = "recv" /\ handled' = handled + 1

TakesMessage(variant) ==
  /\ Takes
  /\ NextEvent.type = "IncomingMessage"
  /\ NextEvent.message.side = "Server"
  /\ NextEvent.message.variant = variant

\* the dispatcher is between the two sends of the Hello handler, for a Hello
\* whose build info is / is not compatible with the server's
FinishesHello(compat) ==
  /\ dispatcher.pc = "hello_rdi"
  /\ dispatcher' # dispatcher
  /\ compatible(LocalBuiltInfo, dispatcher.built[1]) = compat

Msgs(queue) == [j \in 1..Len(queue) |-> queue[j].msg]

\* C1: a session whose Hello carries a build info that is not compatible with
\* the server's gets Goodbye enqueued and no RequestDeviceInfo: the handler
\* enqueues exactly Goodbye in its first part and nothing in its second.
C1_IncompatibleHelloOnlyGoodbye ==
  [][/\ (/\ TakesMessage("Hello")
         /\ Registered(NextEvent.id)
         /\ rx_alive[NextEvent.id]
         /\ ~compatible(LocalBuiltInfo, NextEvent.message.body[1].pdtcore_built_info))
          => Msgs(outgoing'[NextEvent.id])
               = Append(Msgs(outgoing[NextEvent.id]), ClientMsg("Goodbye"))
     /\ FinishesHello(FALSE) => outgoing' = outgoing]_vars

\* C2: handling a compatible Hello of a registered session records the
\* introduced build info in the entry and enqueues exactly one
\* RequestDeviceInfo and no Goodbye: nothing in the handler's first part, and
\* RequestDeviceInfo in its second, which returns to the top of the loop.
C2_CompatibleHelloRequestsDeviceInfo ==
  [][/\ (/\ TakesMessage("Hello")
         /\ Registered(NextEvent.id)
         /\ compatible(LocalBuiltInfo, NextEvent.message.body[1].pdtcore_built_info))
          => /\ outgoing' = outgoing
             /\ dispatcher'.pc = "hello_rdi"
             /\ clients'[NextEvent.id][1].pdtcore_built_info
                  = Some(NextEvent.message.body[1].pdtcore_built_info)
     /\ FinishesHello(TRUE)
          => /\ dispatcher'.pc = "recv"
             /\ Msgs(outgoing'[dispatcher.id])
                  = Append(Msgs(outgoing[dispatcher.id]), ClientMsg("RequestDeviceInfo"))]_vars

\* the tuples a snapshot holds for an id
TuplesOf(output, id) == {j \in 1..Len(output) : output[j].id = IdToString(id)}

\* C3: after DeviceInfo(info) was handled for a registered id, every snapshot
\* get_clients returns while the id is registered holds exactly one tuple for
\* the id, with the device info of the last DeviceInfo handled for it.
C3_SnapshotShowsDeviceInfo ==
  \A id \in Ids :
    (/\ Registered(id)
     /\ last_device_info[id] # None
     /\ ClientsLockFree
     /\ get_clients.result = "Ok")
      => /\ Cardinality(TuplesOf(get_clients.output, id)) = 1
         /\ \A j \in TuplesOf(get_clients.output, id) :
              get_clients.output[j].device_info = last_device_info[id][1]

C3_Witness ==
  \E id \in Ids :
    /\ Registered(id)
    /\ last_device_info[id] # None
    /\ ClientsLockFree
    /\ get_clients.result = "Ok"
    /\ \E j \in TuplesOf(get_clients.output, id) :
         get_clients.output[j].device_info # DeviceInfoDefault

\* the writer of a session has terminated: it left its loop, or panicked
WriterTerminated(id) == writer[id] \in {"remove", "done", "panicked"}

\* C4: whenever send can run, it returns ClientNotFound for an id without a
\* registry entry, and SendChannel for an id whose entry exists and whose
\* writer has terminated.
C4_SendErrors ==
  ClientsLockFree =>
    \A to \in Ids \cup {UnknownId} :
      /\ ~Registered(to) => SendResult(to) = "ClientNotFound"
      /\ (Registered(to) /\ WriterTerminated(to)) => SendResult(to) = "SendChannel"

\* C5: when the dispatcher handles a Hello or DeviceInfo event for an id that
\* has no registry entry, the registry is unchanged and the dispatcher does
\* not panic.
C5_AbsentIdIsNoOp ==
  [][((TakesMessage("Hello") \/ TakesMessage("DeviceInfo")) /\ ~Registered(NextEvent.id))
       => (clients' = clients /\ dispatcher'.pc # "panicked")]_vars

\* C6: no message of a connected device terminates the dispatcher: handling
\* an inbound message of a registered session whose writer is running leaves
\* the dispatcher running.
C6_NoMessageTerminatesDispatcher ==
  [][(/\ Takes
      /\ NextEvent.type = "IncomingMessage"
      /\ Registered(NextEvent.id)
      /\ writer[NextEvent.id] = "recv")
       => dispatcher'.pc # "panicked"]_vars

\* the threads of the server run whenever they can take a step; the devices
\* and the admin are under no obligation to act
ServerStep ==
  \/ \E id \in Ids : ReaderReceive(id) \/ ReaderReceiveTorn(id) \/ ReaderEof(id)
  \/ HandleUnexpected \/ HandleClientMessage \/ HandleGoodbye
  \/ HandleHello \/ HelloRequestDeviceInfo \/ HandleDeviceInfo
  \/ \E id \in Ids : WriterInsert(id) \/ WriterSend(id) \/ WriterRemove(id)

FairSpec == Init /\ [][Next]_vars /\ WF_vars(ServerStep)

\* C7: once the reader or the writer of a session has terminated, the
\* session's registry entry is eventually removed for good.
C7_EntryEventuallyRemoved ==
  \A id \in Ids :
    (reader[id] = "ended" \/ WriterTerminated(id)) ~> [](~Registered(id))

\* C8: the failure of one session's writer leaves the writers of the other
\* sessions running: no writer panics after the dispatcher stopped in the
\* Hello handler of another session, on that session's closed channel.
C8_OtherSessionsKeepRunning ==
  \A i \in Ids, j \in Ids :
    (i # j /\ dispatcher.pc = "panicked" /\ dispatcher.id = i /\ WriterTerminated(i))
      => writer[j] # "panicked"

\* C9: the dispatcher takes the events one at a time in the order they were
\* pushed on the inbound channel, and so the frames of a session in the order
\* the device wrote them.
C9_HandledInOrder ==
  [][Takes => /\ NextEvent.k = handled + 1
             /\ (NextEvent.n > 0 => NextEvent.n > last_n[NextEvent.id])]_vars

C9_Witness == \E id \in Ids : last_n[id] = 2 /\ handled >= 2

\* C10: the writer of a session writes the messages in the order they were
\* enqueued on the session's outbound channel: what it writes was enqueued
\* after what it wrote before, and before everything still queued.
C10_WrittenInEnqueueOrder ==
  [][\A id \in Ids :
       (written'[id] # written[id] /\ written'[id][1].q > 0)
         => /\ (written[id] # None => written'[id][1].q > written[id][1].q)
            /\ \A j \in 1..Len(outgoing'[id]) : outgoing'[id][j].q > written'[id][1].q]_vars

C10_Witness == \E id \in Ids : written[id] # None /\ written[id][1].q = 2

\* C11: every accepted connection gets an id no earlier connection got, and
\* an id whose entry was removed from the registry is never registered again.
C11_IdsAreFresh ==
  /\ \A a \in 1..Len(client_ids), b \in 1..Len(client_ids) :
       a # b => client_ids[a] # client_ids[b]
  /\ \A id \in Ids : writer[id] = "done" => ~Registered(id)

C11_Witness ==
  /\ Len(client_ids) = 2
  /\ \E id \in Ids : writer[id] = "done" /\ ~Registered(id)

\* C12: while an entry exists, its build info and its device info, once set,
\* are never None again.
C12_InfosStaySet ==
  [][\A id \in Ids :
       (Registered(id) /\ clients'[id] # None)
         => /\ (clients[id][1].pdtcore_built_info # None
                  => clients'[id][1].pdtcore_built_info # None)
            /\ (clients[id][1].device_info # None
                  => clients'[id][1].device_info # None)]_vars

C12_Witness ==
  \E id \in Ids :
    /\ Registered(id)
    /\ clients[id][1].pdtcore_built_info # None
    /\ clients[id][1].device_info # None
    /\ handled = 2

\* C20: whenever the dispatcher takes an IncomingMessage tagged with a
\* session's id, the writer thread of that session has already inserted the
\* session's entry in the registry.
C20_EntryCreatedBeforeDispatch ==
  [][(Takes /\ NextEvent.type = "IncomingMessage")
       => writer[NextEvent.id] # "insert"]_vars

\* C13: after a connection loss the client makes no more than max_retries
\* attempts to connect again, and once receive has returned its error the
\* client has stopped.
C13_AtMostMaxRetriesAttempts ==
  /\ connects <= max_retries
  /\ run.result = Some("Receive") => run.pc = "returned"

\* C14: after the failed reconnect attempt numbered n the client sleeps
\* 1000 ms when n is at most 10 and 1000 * n ms when n is greater.
C14_Backoff ==
  [][(attempt' = attempt + 1 /\ run'.pc = "reconnect")
       => last_sleep' = Some(IF attempt' <= 10 THEN 1000 ELSE 1000 * attempt')]_vars

C14_Witness == attempt = 12 /\ last_sleep = Some(12000) /\ run.pc = "reconnect"

\* C15: an error of Message::receive while the shutdown-requested flag is set
\* leads to no reconnect: receive reports no more messages, run goes to its
\* final end() and from there only returns, connecting no more.
C15_NoReconnectWhenShutdownRequested ==
  [][/\ (run.pc = "reading" /\ shutdown_request_flag /\ run' # run /\ run'.pc # "handle")
          => (run'.pc = "end" /\ tcp_stream' = tcp_stream)
     /\ (run.pc = "end" /\ run' # run)
          => (run'.pc = "returned" /\ connects' = connects /\ attempt' = attempt)]_vars

C15_Witness ==
  /\ run.pc = "end"
  /\ run.error # None
  /\ shutdown_request_flag

\* C16: a failure of the command run for ScreenOff does not end the session:
\* after handling ScreenOff the client receives again.
C16_CommandFailureKeepsSession ==
  [][(run.pc = "handle" /\ run.message = Some(ClientMsg("ScreenOff")) /\ run' # run)
       => run'.pc = "receive"]_vars

\* C17: on every connection the client has, the first frame it writes is the
\* introduction, it writes no second one, and it receives only on a
\* connection on which the introduction is written.
C17_IntroductionFirstAndOnce ==
  /\ wire # <<>> => wire[1] = "Introduction"
  /\ Cardinality({j \in 1..Len(wire) : wire[j] = "Introduction"}) <= 1
  /\ run.pc \in {"receive", "reading", "handle"} => wire # <<>>

C17_Witness ==
  /\ run.pc = "reading"
  /\ losses >= 1
  /\ attempt = 3
  /\ tcp_stream.up
  /\ wire = <<"Introduction">>

ReceivedOk(message) == [result |-> "Ok", message |-> Some(message)]

\* C18: receive applied to the bytes send wrote for a message returns that
\* message.
C18_RoundTrip ==
  (Len(sent_messages) = 1 /\ Len(received_messages) = 1)
    => received_messages[1] = ReceivedOk(sent_messages[1])

C18_Witness ==
  /\ Len(sent_messages) = 1
  /\ Len(received_messages) = 1
  /\ received_messages[1].result = "Ok"
  /\ received_messages[1].message[1].variant = "Hello"

\* C19: successive calls of receive return the messages written on the
\* stream, in order: the j-th call returns the j-th message.
C19_ReceiveTakesOneMessage ==
  \A j \in 1..Len(received_messages) :
    j <= Len(sent_messages) => received_messages[j] = ReceivedOk(sent_messages[j])

\* C21: no message that send accepted with Ok is left on the outbound queue
\* of a writer that stops draining: when the writer of a session leaves its
\* loop, the only message of the admin on its queue is the one it dequeued
\* and tried to write in that step.
C21_AcceptedIsDrained ==
  [][\A id \in Ids :
       (writer[id] = "recv" /\ writer'[id] # "recv")
         => \A j \in 1..Len(outgoing[id]) :
              outgoing[id][j].msg \in AdminMessages => j = OutgoingIndex(outgoing[id])]_vars

\* C22: once the client has handled an inbound End its shutdown-requested
\* flag is true, and a flag that is true stays true.
C22_FlagSetAfterEnd ==
  [][/\ (run.pc = "handle" /\ run.message = Some(CommonEnd) /\ run' # run)
          => shutdown_request_flag'
     /\ shutdown_request_flag => shutdown_request_flag']_vars

\* C23: with the shutdown requested while the client is in its retry loop,
\* the next turn of the loop connects no more, sleeps no more (a turn that
\* stays in the loop has slept), and ends the session as Closed.
C23_ShutdownShortCircuitsReconnect ==
  [][(run.pc = "reconnect" /\ shutdown_request_flag /\ run' # run)
       => /\ connects' = connects
          /\ ~(attempt' = attempt + 1 /\ run'.pc = "reconnect")
          /\ run'.pc = "returned"
          /\ run'.result = Some("Closed")]_vars

\* the reader of a session makes a decode attempt in this step: it takes
\* bytes from the stream or leaves its loop
DecodeAttempt(id) ==
  /\ reader[id] = "running"
  /\ \/ reader'[id] # "running"
     \/ Len(stream'[id].frames) < Len(stream[id].frames)

\* this step pushes exactly one event on the inbound channel
PushesOne ==
  /\ pushed' = pushed + 1
  /\ Len(events') = Len(events) + 1
  /\ SubSeq(events', 1, Len(events)) = events

\* the reader stops exactly after a forwarded Goodbye or Unexpected(error),
\* stays stopped, and only a decode attempt pushes an event
ReaderStopsAfterLast ==
  /\ \A id \in Ids :
       /\ (DecodeAttempt(id) /\ PushesOne)
            => LET e == events'[Len(events')]
               IN (e.type = "Unexpected" \/ e.message = ServerGoodbye)
                    <=> reader'[id] = "ended"
       /\ reader[id] = "ended" => reader'[id] = "ended"
  /\ pushed' # pushed => \E id \in Ids : DecodeAttempt(id)

\* C24 as stated: every decode attempt of a session's reader pushes exactly
\* one event, every event pushed is tagged with the session's id, and a
\* forwarded Goodbye or Unexpected(error) is the reader's last event.
C24_OneTaggedEventPerDecode ==
  [][/\ \A id \in Ids :
          DecodeAttempt(id) => (PushesOne /\ events'[Len(events')].id = id)
     /\ ReaderStopsAfterLast]_vars

\* C24, amended: every decode attempt of a session's reader pushes exactly
\* one event, a decoded message tagged with the session's id and an
\* Unexpected(error) with no id, and a forwarded Goodbye or Unexpected(error)
\* is the reader's last event.
C24_OneEventPerDecode ==
  [][/\ \A id \in Ids :
          DecodeAttempt(id)
            => /\ PushesOne
               /\ LET e == events'[Len(events')]
                  IN IF e.type = "IncomingMessage" THEN e.id = id ELSE e.id = UnknownId
     /\ ReaderStopsAfterLast]_vars

C24_Witness ==
  /\ Len(client_ids) = 1
  /\ pushed = 2
  /\ reader[1] = "ended"

FinalGoodbye == [msg |-> ClientMsg("Goodbye"), q |-> 0]

\* C25: the writer of a session leaves its loop only in a step in which its
\* write failed, or in which it found every Sender of its queue gone and
\* tried to write the final Goodbye; a failed write ends the loop at once; a
\* writer that left its loop writes nothing more and never returns to it;
\* and after the write of a queued message it waits for the next one.
C25_WriterTermination ==
  [][\A id \in Ids :
       /\ (writer[id] = "recv" /\ writer'[id] # "recv")
            => \/ written'[id] = written[id] /\ ~stream[id].open
               \/ /\ ~SenderAlive(id)
                  /\ outgoing[id] = <<>>
                  /\ written'[id] = Some(FinalGoodbye)
       /\ (/\ writer[id] = "recv"
           /\ Len(outgoing'[id]) < Len(outgoing[id])
           /\ written'[id] = written[id])
            => writer'[id] # "recv"
       /\ WriterTerminated(id)
            => (written'[id] = written[id] /\ WriterTerminated(id)')
       /\ (writer[id] = "recv" /\ written'[id] # written[id] /\ written'[id] # Some(FinalGoodbye))
            => writer'[id] = "recv"]_vars

\* a writer that wrote a message, then failed a write and left its loop
C25_Witness ==
  \E id \in Ids :
    /\ WriterTerminated(id)
    /\ written[id] # None
    /\ enqueued[id] = 2

\* C26: once the client has shut its socket down, which it does at the end of
\* its Ending step, it has written exactly one End frame on the connection,
\* and when run returns it returns Ok.
C26_EndingOnce ==
  tcp_stream.shut
    => /\ Cardinality({j \in 1..Len(wire) : wire[j] = "End"}) = 1
       /\ run.pc = "returned" => run.result = Some("Ok")

\* the mutex a thread is about to lock, "none" when it is not at a lock
Wants(t) ==
  LET pc == thread[t].pc
  IN IF pc = "receiver.lock" THEN "incoming_server_event_receiver"
     ELSE IF pc = "sender.lock" THEN "incoming_server_event_sender"
     ELSE IF pc \in {"clients.lock", "clients.lock.insert", "clients.lock.remove"} THEN "clients"
     ELSE IF pc = "client_ids.lock" THEN "client_ids"
     ELSE IF pc = "server.lock" THEN "server"
     ELSE IF pc = "state.lock" THEN "state"
     ELSE "none"

\* the threads that wait: at a lock whose guard some thread holds
Waiting == {t \in Threads : IF Wants(t) = "none" THEN FALSE ELSE ~Free(Wants(t))}

\* the thread is in a socket read or write, in a queue receive, or in accept
Blocked(t) == thread[t].pc \in {"incoming", "receive", "recv", "write"}

\* C27: there is no set of threads each of which waits for a mutex whose
\* guard another thread of the set holds (or it holds itself), and no thread
\* holds the registry's guard while it is in a socket read or write or in a
\* queue receive.
C27_NoLockDeadlock ==
  /\ \A D \in SUBSET Waiting : D # {} => \E t \in D : mutex[Wants(t)].holder \notin D
  /\ \A t \in Threads : mutex["clients"].holder = t => ~Blocked(t)

\* the dispatcher handles a Hello under the registry's guard while a writer
\* waits to insert, one admin call waits for the registry under the guards of
\* the state and the server, and the other admin call waits for the state
C27_Witness ==
  /\ mutex["clients"].holder = Dispatcher
  /\ thread[Writer(1)].pc = "clients.lock.insert"
  /\ thread[Admin(1)].pc = "clients.lock"
  /\ mutex["server"].holder = Admin(1)
  /\ thread[Admin(2)].pc = "state.lock"

====
